---------------------------- MODULE Spec2Model ----------------------------
(***************************************************************************)
(* A model of maid (src/src/main.rs): the document classifier, the name    *)
(* synthesizer, the placement of a file, the clean flow (clean_directory   *)
(* and process_file) and the keep flow (the evaluation of KeepAnalysis,    *)
(* move_to_trash and generate_comprehensive_rubric).                       *)
(*                                                                         *)
(* Text is modelled by TLA+ strings, used as sequences of characters       *)
(* (Len, SubSeq and \o apply to them), so that str::contains, trim,        *)
(* to_lowercase, split_whitespace and the regular expressions of the       *)
(* source are computed character by character.                             *)
(***************************************************************************)
EXTENDS Integers, Sequences, FiniteSets, TLC

VARIABLES
    pc,               \* position of the run that is modelled
    file_paths,       \* the candidate list the file enumerator hands over
    disk,             \* the storage medium: path -> file body, or NoFile
    dirs,             \* the storage medium: the directories that exist
    important_files,  \* KeepAnalysis.important_files
    redundant_files,  \* KeepAnalysis.redundant_files
    result,           \* the Result the run has returned so far: "Ok" or "Err"
    spawned,          \* keep flow: the self-destruct script has been launched
    rubric_contents,  \* keep flow: the rubric_content of each rubric generated
    restructure,      \* clean flow: the --restructure flag
    dry_run,          \* clean flow: the --dry-run flag
    processed_files,  \* clean flow: the counter of clean_directory
    skipped_files,    \* clean flow: the counter of clean_directory
    next_file,        \* clean flow: position of the loop in file_paths
    in_path,          \* classifier/synthesizer: the path of the record
    in_content,       \* classifier/synthesizer: the body of the record
    doc_kind,         \* result of determine_document_kind
    record,           \* result of FileInfo::new
    improved_name,    \* working title of generate_new_filename
    new_filename,     \* result of generate_new_filename
    in_base_dir,      \* the base directory handed to suggest_target_directory
    target_dir,       \* result of suggest_target_directory
    renamed,          \* result of FileInfo::new on the file under its new name
    second_filename   \* result of generate_new_filename on that record

vars == <<pc, file_paths, disk, dirs, important_files, redundant_files, result,
          spawned, rubric_contents, restructure, dry_run, processed_files, skipped_files, next_file,
          in_path, in_content, doc_kind, record, improved_name, new_filename,
          in_base_dir, target_dir, renamed, second_filename>>

keepVars == <<file_paths, disk, important_files, redundant_files>>
runVars == <<dirs, result, spawned, rubric_contents>>
cleanVars == <<restructure, dry_run, processed_files, skipped_files, next_file>>
recordVars == <<in_path, in_content, doc_kind, record, improved_name, new_filename>>
placeVars == <<in_base_dir, target_dir, renamed, second_filename>>

(***************************************************************************)
(* Bounds of the model.                                                    *)
(***************************************************************************)
\* the longest candidate list handed to evaluate_files
MaxFiles == 3

\* the largest number of places by which the order of a hash table differs
\* from the order of insertion
MaxSeed == 2

\* the largest number of rubrics generated from the same kept files
MaxRubrics == 2

(***************************************************************************)
(* Characters and strings (the std::str operations the source uses).       *)
(***************************************************************************)
UpperAlpha == "ABCDEFGHIJKLMNOPQRSTUVWXYZ"
LowerAlpha == "abcdefghijklmnopqrstuvwxyz"

\* char::is_whitespace, restricted to the characters of the model.
is_whitespace(c) == c \in {" ", "\t", "\n", "\r"}

CharAt(s, i) == SubSeq(s, i, i)
Suffix(s, i) == SubSeq(s, i, Len(s))

\* char::to_lowercase on one character.
char_to_lowercase(c) ==
    IF \E i \in 1..Len(UpperAlpha) : CharAt(UpperAlpha, i) = c
    THEN CharAt(LowerAlpha, CHOOSE i \in 1..Len(UpperAlpha) : CharAt(UpperAlpha, i) = c)
    ELSE c

\* char::to_uppercase on one character.
char_to_uppercase(c) ==
    IF \E i \in 1..Len(LowerAlpha) : CharAt(LowerAlpha, i) = c
    THEN CharAt(UpperAlpha, CHOOSE i \in 1..Len(LowerAlpha) : CharAt(LowerAlpha, i) = c)
    ELSE c

RECURSIVE to_lowercase(_)
to_lowercase(s) ==
    IF s = "" THEN ""
    ELSE char_to_lowercase(CharAt(s, 1)) \o to_lowercase(Suffix(s, 2))

\* str::contains(pattern)
contains(s, sub) ==
    \E i \in 1..(Len(s) - Len(sub) + 1) : SubSeq(s, i, i + Len(sub) - 1) = sub

\* str::ends_with(pattern)
ends_with(s, suf) ==
    /\ Len(suf) <= Len(s)
    /\ SubSeq(s, Len(s) - Len(suf) + 1, Len(s)) = suf

\* str::starts_with(pattern)
starts_with(s, pre) ==
    /\ Len(pre) <= Len(s)
    /\ SubSeq(s, 1, Len(pre)) = pre

\* str::replace(from, to) for a one-character `from`.
RECURSIVE replace(_, _, _)
replace(s, from, to) ==
    IF s = "" THEN ""
    ELSE (IF CharAt(s, 1) = from THEN to ELSE CharAt(s, 1)) \o replace(Suffix(s, 2), from, to)

RECURSIVE trim_start(_)
trim_start(s) ==
    IF s # "" /\ is_whitespace(CharAt(s, 1)) THEN trim_start(Suffix(s, 2)) ELSE s

RECURSIVE trim_end(_)
trim_end(s) ==
    IF s # "" /\ is_whitespace(CharAt(s, Len(s))) THEN trim_end(SubSeq(s, 1, Len(s) - 1)) ELSE s

\* str::trim
trim(s) == trim_end(trim_start(s))

\* the first word of a string that starts with a non-whitespace character
RECURSIVE first_word(_)
first_word(s) ==
    IF s = "" \/ is_whitespace(CharAt(s, 1)) THEN ""
    ELSE CharAt(s, 1) \o first_word(Suffix(s, 2))

\* str::split_whitespace().collect(): the sequence of the words of s
RECURSIVE split_whitespace(_)
split_whitespace(s) ==
    LET t == trim_start(s) IN
    IF t = "" THEN <<>>
    ELSE LET w == first_word(t) IN <<w>> \o split_whitespace(Suffix(t, Len(w) + 1))

\* [String]::join(sep)
RECURSIVE join(_, _)
join(words, sep) ==
    IF words = <<>> THEN ""
    ELSE IF Len(words) = 1 THEN words[1]
    ELSE words[1] \o sep \o join(Tail(words), sep)

(***************************************************************************)
(* std::path::Path: a path is a string with "/" between its components.    *)
(***************************************************************************)
\* index of the last occurrence of the character c in s, 0 if there is none
RECURSIVE last_index_of(_, _)
last_index_of(s, c) ==
    IF s = "" THEN 0
    ELSE IF CharAt(s, Len(s)) = c THEN Len(s)
    ELSE last_index_of(SubSeq(s, 1, Len(s) - 1), c)

\* Path::file_name
file_name(path) == Suffix(path, last_index_of(path, "/") + 1)

\* Path::parent, "" for a path of one component
parent(path) == SubSeq(path, 1, last_index_of(path, "/") - 1)

\* Path::file_stem: the file name before its final ".", the whole file name
\* when it has no "." or only a leading one.
file_stem(path) ==
    LET f == file_name(path)
        d == last_index_of(f, ".")
    IN  IF d <= 1 THEN f ELSE SubSeq(f, 1, d - 1)

\* Path::extension: Some(ext) is <<ext>>, None is <<>>.
extension(path) ==
    LET f == file_name(path)
        d == last_index_of(f, ".")
    IN  IF d <= 1 THEN <<>> ELSE <<Suffix(f, d + 1)>>

\* Path::join
path_join(dir, name) == IF dir = "" THEN name ELSE dir \o "/" \o name

(***************************************************************************)
(* FileType, DocumentKind and the classifier.                              *)
(***************************************************************************)
FileType == {"Markdown", "Shell", "Other"}
DocumentKind == {"Rubric", "Report", "Guide", "Summary", "Script", "Unknown"}

\* Option<T>: None is <<>>, Some(v) is <<v>>.
None == <<>>
Some(v) == <<v>>

\* the condition of `// Check for rubrics`
is_rubric(filename_lower, content_lower) ==
    \/ contains(filename_lower, "rubric")
    \/ contains(content_lower, "# rubric")
    \/ contains(content_lower, "rubric for")
    \/ contains(content_lower, "evaluation rubric")
    \/ contains(content_lower, "assessment criteria")
    \/ contains(content_lower, "scoring guide")

\* the condition of `// Check for reports`
is_report(filename_lower, content_lower) ==
    \/ contains(filename_lower, "report")
    \/ contains(filename_lower, "complete")
    \/ contains(filename_lower, "status")
    \/ contains(filename_lower, "analysis")
    \/ contains(filename_lower, "assessment")
    \/ contains(content_lower, "# report")
    \/ contains(content_lower, "# completion")
    \/ contains(content_lower, "# status")
    \/ contains(content_lower, "# analysis")
    \/ contains(content_lower, "task completion")
    \/ contains(content_lower, "completion report")
    \/ contains(content_lower, "status update")

\* the condition of `// Check for guides`
is_guide(filename_lower, content_lower) ==
    \/ contains(filename_lower, "guide")
    \/ contains(filename_lower, "how_to")
    \/ contains(filename_lower, "howto")
    \/ contains(filename_lower, "manual")
    \/ contains(filename_lower, "tutorial")
    \/ contains(filename_lower, "instructions")
    \/ contains(content_lower, "# guide")
    \/ contains(content_lower, "# how to")
    \/ contains(content_lower, "step by step")
    \/ contains(content_lower, "# tutorial")
    \/ contains(content_lower, "# instructions")
    \/ contains(content_lower, "how to use")
    \/ contains(content_lower, "usage instructions")

\* the condition of `// Check for summaries`
is_summary(filename_lower, content_lower) ==
    \/ contains(filename_lower, "summary")
    \/ contains(filename_lower, "overview")
    \/ contains(filename_lower, "recap")
    \/ contains(filename_lower, "synopsis")
    \/ contains(content_lower, "# summary")
    \/ contains(content_lower, "## summary")
    \/ contains(content_lower, "# overview")
    \/ contains(content_lower, "# recap")
    \/ contains(content_lower, "in conclusion")
    \/ contains(content_lower, "executive summary")
    \/ contains(content_lower, "project summary")

\* the condition of `// Check for scripts`
is_script(filename_lower) == ends_with(filename_lower, ".sh")

\* a classifier that looks at the shell extension before the keywords
determine_document_kind_script_first(filename, content) ==
    LET filename_lower == to_lowercase(filename)
        content_lower == to_lowercase(content)
    IN  IF is_script(filename_lower) THEN "Script"
        ELSE IF is_rubric(filename_lower, content_lower) THEN "Rubric"
        ELSE IF is_report(filename_lower, content_lower) THEN "Report"
        ELSE IF is_guide(filename_lower, content_lower) THEN "Guide"
        ELSE IF is_summary(filename_lower, content_lower) THEN "Summary"
        ELSE "Unknown"

determine_document_kind(filename, content) ==
    LET filename_lower == to_lowercase(filename)
        content_lower == to_lowercase(content)
    IN  IF is_rubric(filename_lower, content_lower) THEN "Rubric"
        ELSE IF is_report(filename_lower, content_lower) THEN "Report"
        ELSE IF is_guide(filename_lower, content_lower) THEN "Guide"
        ELSE IF is_summary(filename_lower, content_lower) THEN "Summary"
        ELSE IF is_script(filename_lower) THEN "Script"
        ELSE "Unknown"

(***************************************************************************)
(* The storage medium.  A file is its body (text, or bytes that are not    *)
(* UTF-8 and so cannot be read into a String) and its creation time.       *)
(***************************************************************************)
NoFile == [exists |-> FALSE, utf8 |-> FALSE, text |-> "", created |-> None]
TextFile(text, created) == [exists |-> TRUE, utf8 |-> TRUE, text |-> text, created |-> created]
BinaryFile(created) == [exists |-> TRUE, utf8 |-> FALSE, text |-> "", created |-> created]

\* The files a run can find: path and file.  Creation times are small
\* integers; None is a medium that does not expose them.
Files == <<
    <<"proj/rubric_v1.md",       TextFile("Evaluation Rubric: a b", Some(2))>>,
    <<"proj/rubric_v2.md",       TextFile("Evaluation Rubric: a b c d", Some(1))>>,
    <<"proj/docs/grading.md",    TextFile("Scoring Guide\n a  b c d", None)>>,
    <<"proj/status_report.md",   TextFile("# Report\ndone", None)>>,
    <<"proj/TASK_COMPLETE.md",   TextFile("all tasks", Some(1))>>,
    <<"proj/docs/review.md",     TextFile("Status Update: ok", Some(2))>>,
    <<"proj/howto_run.md",       TextFile("run it", Some(1))>>,
    <<"proj/docs/setup_guide.md", TextFile("Step by step", None)>>,
    <<"proj/recap.md",           TextFile("# Summary\nfin", Some(1))>>,
    <<"proj/notes.md",           TextFile("In conclusion, ok", None)>>,
    <<"proj/run.sh.sh",          TextFile("echo hi", Some(1))>>,
    <<"proj/docs/run.sh.sh",     TextFile(" echo hi\n", Some(2))>>,
    <<"proj/deploy.sh.md",       TextFile("echo hi\t", None)>>,
    <<"proj/build.sh.sh",        TextFile("make all", Some(1))>>,
    <<"proj/install_deps.sh",    TextFile("# installs project dependencies", Some(1))>>,
    <<"proj/binary.md",          BinaryFile(Some(1))>> >>

Paths == {Files[i][1] : i \in 1..Len(Files)}
InitialFile == [p \in Paths |-> Files[CHOOSE i \in 1..Len(Files) : Files[i][1] = p][2]]

\* The file names and the bodies from which single records are made.
SampleNames == {
    "install_deps.sh", "setup_deploy.sh", "setup.sh", "test_build_config.md",
    "verify-launch.sh", "cleanup_integration_test.sh", "configuration_notes.md",
    "latest_news.md", "howto_deploy_build.md", "RUBRIC_Check.sh", "rubric_check.sh",
    "Status-Report.md", "summary.sh", "run.sh.sh", "x.SH", "notes.md", "todo",
    "Install Deps.sh", ".hidden.md" }

SampleContents == {
    "# installs project dependencies", "EVALUATION RUBRIC", "evaluation rubric",
    "Status update and How To Use", "# Summary\nin conclusion", "npm test", "",
    "# Guide\n## Summary", "Assessment Criteria # Report", "make build",
    "Test the Setup" }

\* The files a run of clean can find, and the files that may already lie in
\* a target directory without being candidates of the run.
CleanFiles == <<
    <<"proj/install_deps.sh",    TextFile("# installs project dependencies", Some(1))>>,
    <<"proj/Install Deps.sh",    TextFile("echo hi", Some(2))>>,
    <<"proj/run.sh.sh",          TextFile("echo hi", Some(1))>>,
    <<"proj/docs/run.sh.sh",     TextFile(" echo hi\n", Some(2))>>,
    <<"proj/notes.md",           TextFile("In conclusion, ok", None)>>,
    <<"proj/binary.md",          BinaryFile(Some(1))>>,
    <<"proj/.hidden.md",         TextFile("run it", Some(1))>> >>

OtherFiles == <<
    <<"proj/docs/summaries/Summary - Notes.md", TextFile("all tasks", Some(1))>> >>

CleanPaths == {CleanFiles[i][1] : i \in 1..Len(CleanFiles)}
OtherPaths == {OtherFiles[i][1] : i \in 1..Len(OtherFiles)}
InitialCleanFile ==
    [p \in CleanPaths \cup OtherPaths |->
        IF p \in CleanPaths
        THEN CleanFiles[CHOOSE i \in 1..Len(CleanFiles) : CleanFiles[i][1] = p][2]
        ELSE OtherFiles[CHOOSE i \in 1..Len(OtherFiles) : OtherFiles[i][1] = p][2]]

\* The files a run of keep can find when it goes on to move the redundant
\* files and to write the rubric.
KeepFiles == <<
    <<"proj/COMPREHENSIVE_PROJECT_RUBRIC.md",
                                 TextFile("Evaluation Rubric: a b c d", Some(1))>>,
    <<"proj/rubric_v1.md",       TextFile("Evaluation Rubric: a b", Some(2))>>,
    <<"proj/docs/rubric_v1.md",  TextFile("Scoring Guide a", None)>>,
    <<"proj/glossary.md",
        TextFile("Alpha beta, gamma-delta epsilon zeta theta iota kappa lambda sigma "
                 \o "omega upsilon omicron digamma koppa the end", Some(1))>>,
    <<"proj/install_deps.sh",    TextFile("# installs omega_x; OMEGA omega alpha", Some(1))>>,
    <<"proj/docs/self_destruct.sh", TextFile("Scoring Guide a", Some(1))>>,
    <<"proj/binary.md",          BinaryFile(Some(1))>> >>

KeepPaths == {KeepFiles[i][1] : i \in 1..Len(KeepFiles)}
InitialKeepFile ==
    [p \in KeepPaths |-> KeepFiles[CHOOSE i \in 1..Len(KeepFiles) : KeepFiles[i][1] = p][2]]

(***************************************************************************)
(* The strings of the model are finitely many, so the string functions are *)
(* tabulated over them once: each table holds, for every string that can   *)
(* occur, the value the operator above computes for it.                    *)
(***************************************************************************)
AllPaths == Paths \cup SampleNames \cup CleanPaths \cup OtherPaths \cup KeepPaths
Texts == {Files[i][2].text : i \in 1..Len(Files)} \cup SampleContents
            \cup {InitialCleanFile[p].text : p \in CleanPaths \cup OtherPaths}
            \cup {InitialKeepFile[p].text : p \in KeepPaths}

file_names == [p \in AllPaths |-> file_name(p)]
file_stems == [p \in AllPaths |-> file_stem(p)]
extensions == [p \in AllPaths |-> extension(p)]
parents == [p \in AllPaths |-> parent(p)]

Names == {file_stems[p] : p \in AllPaths} \cup SampleNames

document_kinds == [n \in Names, c \in Texts |-> determine_document_kind(n, c)]
word_counts == [c \in Texts |-> Len(split_whitespace(c))]
trimmed == [c \in Texts |-> trim(c)]

\* The value of a table where it has one, the operator itself for a string
\* that a run has made (the name a file was given).
file_name_of(path) == IF path \in AllPaths THEN file_names[path] ELSE file_name(path)
file_stem_of(path) == IF path \in AllPaths THEN file_stems[path] ELSE file_stem(path)
extension_of(path) == IF path \in AllPaths THEN extensions[path] ELSE extension(path)
parent_of(path) == IF path \in AllPaths THEN parents[path] ELSE parent(path)
document_kind_of(name, content) ==
    IF name \in Names /\ content \in Texts THEN document_kinds[name, content]
    ELSE determine_document_kind(name, content)

(***************************************************************************)
(* FileInfo::new.  Result<FileInfo>: Err is [ok |-> FALSE], Ok(info) is    *)
(* [ok |-> TRUE, info |-> info].                                           *)
(***************************************************************************)
Err == [ok |-> FALSE]
Ok(info) == [ok |-> TRUE, info |-> info]

FileInfo_new(fs, path) ==
    LET ext == extension_of(path)
        file_type == IF ext = Some("md") THEN "Markdown"
                     ELSE IF ext = Some("sh") THEN "Shell"
                     ELSE "Other"
        name == IF file_name_of(path) = "" THEN "unknown" ELSE file_stem_of(path)
    IN  IF ~fs[path].exists THEN Err          \* File::open fails
        ELSE IF ~fs[path].utf8 THEN Err       \* read_to_string fails
        ELSE Ok([path |-> path,
                 file_type |-> file_type,
                 doc_kind |-> document_kind_of(name, fs[path].text),
                 name |-> name,
                 content |-> fs[path].text,
                 created_date |-> fs[path].created])

(***************************************************************************)
(* KeepAnalysis::evaluate_files.                                           *)
(***************************************************************************)
\* Ord::cmp on integers, as std::cmp::Ordering
cmp(a, b) == IF a < b THEN "Less" ELSE IF a > b THEN "Greater" ELSE "Equal"

\* [T]::sort_by(compare): a stable sort.  An element comes behind every
\* element that compares Less than it and behind the earlier elements that
\* compare Equal to it.  compare[j, i] is the closure's result for the
\* elements at the positions j and i of s.
sort_by(s, compare) ==
    LET before(i) == {j \in 1..Len(s) :
                        \/ compare[j, i] = "Less"
                        \/ compare[j, i] = "Equal" /\ j < i}
        at(k) == CHOOSE i \in 1..Len(s) : Cardinality(before(i)) = k - 1
    IN  [k \in 1..Len(s) |-> s[at(k)]]

\* a closure that sorts the lowest word count first
rubric_order_ascending(a, b) == cmp(word_counts[a[2].content], word_counts[b[2].content])

\* the closure given to rubrics.sort_by: highest word count first
\* (content.split_whitespace().count() of each record)
rubric_order(a, b) == cmp(word_counts[b[2].content], word_counts[a[2].content])

\* a closure that puts the records without a creation date first
date_order_none_first(a, b) ==
    LET a_date == a[2].created_date
        b_date == b[2].created_date
    IN  IF a_date # None /\ b_date # None THEN cmp(b_date[1], a_date[1])
        ELSE IF a_date # None /\ b_date = None THEN "Greater"
        ELSE IF a_date = None /\ b_date # None THEN "Less"
        ELSE "Equal"

\* the closure given to reports.sort_by and summaries.sort_by: newest first,
\* a record without a creation date behind every record that has one
date_order(a, b) ==
    LET a_date == a[2].created_date
        b_date == b[2].created_date
    IN  IF a_date # None /\ b_date # None THEN cmp(b_date[1], a_date[1])
        ELSE IF a_date # None /\ b_date = None THEN "Less"
        ELSE IF a_date = None /\ b_date # None THEN "Greater"
        ELSE "Equal"

\* the paths of a sequence of (path, info) pairs
paths_of(group) == [i \in 1..Len(group) |-> group[i][1]]

\* a loop over the sorted group that does not skip its first record
keep_first_skip_none(acc, sorted) ==
    IF Len(sorted) = 0 THEN acc
    ELSE <<acc[1] \o <<sorted[1][1]>>, acc[2] \o paths_of(sorted)>>

\* `if !group.is_empty()`: push the first record of the sorted group to
\* important_files and every other one to redundant_files.  acc is the pair
\* of lists <<important_files, redundant_files>>.
keep_first(acc, sorted) ==
    IF Len(sorted) = 0 THEN acc
    ELSE <<acc[1] \o <<sorted[1][1]>>, acc[2] \o paths_of(Tail(sorted))>>

\* guides handled like reports: the first one kept, the others discarded
keep_all_first_only(acc, group) ==
    IF Len(group) = 0 THEN acc
    ELSE <<acc[1] \o <<group[1][1]>>, acc[2] \o paths_of(Tail(group))>>

\* `for (path, _) in guides`: push every record to important_files
keep_all(acc, group) == <<acc[1] \o paths_of(group), acc[2]>>

\* a comparison of the contents as they are, without trim()
same_script_untrimmed(info, existing_info) == info.content = existing_info.content

\* the comparison of the script loop
same_script(info, existing_info) == trimmed[info.content] = trimmed[existing_info.content]

\* `for (path, info) in scripts`: a script whose trimmed content equals that
\* of a script of unique_scripts goes to redundant_files; any other script
\* joins unique_scripts and important_files.
RECURSIVE dedup_scripts(_, _, _)
dedup_scripts(acc, scripts, unique_scripts) ==
    IF Len(scripts) = 0 THEN acc
    ELSE LET path == scripts[1][1]
             info == scripts[1][2]
             is_duplicate == \E k \in 1..Len(unique_scripts) :
                                same_script(info, unique_scripts[k][2])
         IN  IF is_duplicate
             THEN dedup_scripts(<<acc[1], acc[2] \o <<path>>>>, Tail(scripts), unique_scripts)
             ELSE dedup_scripts(<<acc[1] \o <<path>>, acc[2]>>, Tail(scripts),
                                unique_scripts \o <<scripts[1]>>)

\* the first loop of evaluate_files: every path with the result of FileInfo::new
load_all(fs, paths) == [i \in 1..Len(paths) |-> <<paths[i], FileInfo_new(fs, paths[i])>>]

\* the records of one document kind, in enumeration order
group_of(loaded, kind) ==
    LET sel == SelectSeq(loaded, LAMBDA e : e[2].ok /\ e[2].info.doc_kind = kind)
    IN  [i \in 1..Len(sel) |-> <<sel[i][1], sel[i][2].info>>]

\* a first loop that drops the files FileInfo::new cannot analyze
kept_by_default_readable(loaded) ==
    paths_of(SelectSeq(loaded, LAMBDA e : e[2].ok /\ e[2].info.doc_kind = "Unknown"))

\* the paths the first loop pushes to important_files: records of kind
\* Unknown and files that FileInfo::new cannot analyze
kept_by_default(loaded) ==
    paths_of(SelectSeq(loaded, LAMBDA e : ~e[2].ok \/ e[2].info.doc_kind = "Unknown"))

\* rubrics.sort_by(..), and reports.sort_by(..) or summaries.sort_by(..)
sorted_rubrics(rubrics) ==
    sort_by(rubrics, [i, j \in 1..Len(rubrics) |-> rubric_order(rubrics[i], rubrics[j])])
sorted_by_date(group) ==
    sort_by(group, [i, j \in 1..Len(group) |-> date_order(group[i], group[j])])

\* the loops of evaluate_files over the loaded records, in their order:
\* the default keeps, rubrics, reports, guides, summaries, scripts
partition(loaded, important, redundant) ==
    dedup_scripts(
        keep_first(
            keep_all(
                keep_first(
                    keep_first(<<important \o kept_by_default(loaded), redundant>>,
                               sorted_rubrics(group_of(loaded, "Rubric"))),
                    sorted_by_date(group_of(loaded, "Report"))),
                group_of(loaded, "Guide")),
            sorted_by_date(group_of(loaded, "Summary"))),
        group_of(loaded, "Script"),
        <<>>)

\* evaluate_files as a whole: <<important_files, redundant_files>> afterwards
evaluate_files(important, redundant, fs, paths) ==
    partition(load_all(fs, paths), important, redundant)

(***************************************************************************)
(* FileInfo::generate_new_filename.                                        *)
(***************************************************************************)
\* the class [_\-\s] of the patterns
is_separator(c) == c \in {"_", "-"} \/ is_whitespace(c)

RECURSIVE skip_separators(_)
skip_separators(s) ==
    IF s # "" /\ is_separator(CharAt(s, 1)) THEN skip_separators(Suffix(s, 2)) ELSE s

\* what group 1 of (?i)(?:k1|k2)[_\-\s]*(.*?)$ holds when the keyword kw is
\* matched at position p of text: the separators are taken greedily, the
\* group runs to the end of the text
rest_after(text, p, kw) == skip_separators(Suffix(text, p + Len(kw)))

\* whether the pattern matches with the keyword kw at position p: the
\* keyword is there in any letter case, and `.` spans no line break
matches_at(text, p, kw) ==
    /\ p + Len(kw) - 1 <= Len(text)
    /\ to_lowercase(SubSeq(text, p, p + Len(kw) - 1)) = kw
    /\ ~contains(rest_after(text, p, kw), "\n")

\* the first of the alternatives `keywords` with which the pattern matches
\* at position p, 0 when it matches with none
RECURSIVE first_alternative(_, _, _, _)
first_alternative(text, p, keywords, k) ==
    IF k > Len(keywords) THEN 0
    ELSE IF matches_at(text, p, keywords[k]) THEN k
    ELSE first_alternative(text, p, keywords, k + 1)

\* group 1 of the leftmost match that starts at position p or later, None
\* when there is none
RECURSIVE captures_from(_, _, _)
captures_from(text, p, keywords) ==
    IF p > Len(text) THEN None
    ELSE IF first_alternative(text, p, keywords, 1) # 0
    THEN Some(rest_after(text, p, keywords[first_alternative(text, p, keywords, 1)]))
    ELSE captures_from(text, p + 1, keywords)

\* Regex::captures(text).get(1) for the pattern with the alternatives
\* `keywords` (tried in their order at each position): group 1 of the
\* leftmost match, None when there is no match
captures(text, keywords) == captures_from(text, 1, keywords)

\* a pattern that leaves a title alone once an earlier pattern has set it
apply_pattern_first_wins(improved, normalized_name, keywords, word) ==
    LET m == captures(normalized_name, keywords)
    IN  IF m # None /\ improved = normalized_name THEN word \o " " \o trim(m[1]) ELSE improved

\* one `if let Some(re) ... improved_name = format!("Word {}", m.as_str().trim())`
apply_pattern(improved, normalized_name, keywords, word) ==
    LET m == captures(normalized_name, keywords)
    IN  IF m # None THEN word \o " " \o trim(m[1]) ELSE improved

\* self.name.replace('_', " ").replace('-', " ").to_lowercase()
normalize_name(name) == to_lowercase(replace(replace(name, "_", " "), "-", " "))

\* the nine patterns in the order of their `if let` blocks: the keywords of
\* each regular expression (its alternatives in the order the expression
\* tries them) and the word of its format!
patterns == <<
    <<<<"setup", "install">>, "Install">>,
    <<<<"test">>, "Test">>,
    <<<<"launch">>, "Launch">>,
    <<<<"verify">>, "Verify">>,
    <<<<"cleanup">>, "Cleanup">>,
    <<<<"integration">>, "Integration">>,
    <<<<"configuration", "config">>, "Configuration">>,
    <<<<"build">>, "Build">>,
    <<<<"deploy">>, "Deploy">> >>

\* the `if let` blocks from the i-th on, applied one after the other
RECURSIVE apply_patterns(_, _, _)
apply_patterns(improved, normalized_name, i) ==
    IF i > Len(patterns) THEN improved
    ELSE apply_patterns(
            apply_pattern(improved, normalized_name, patterns[i][1], patterns[i][2]),
            normalized_name, i + 1)

\* improved_name once the nine patterns have been applied
working_title(name) == apply_patterns(normalize_name(name), normalize_name(name), 1)

\* first letter of the word upper-cased, the rest unchanged
capitalize(word) ==
    IF word = "" THEN "" ELSE char_to_uppercase(CharAt(word, 1)) \o Suffix(word, 2)

\* improved_name.split_whitespace().map(capitalize).collect().join(" ")
title_case(improved) ==
    LET words == split_whitespace(improved)
    IN  join([i \in 1..Len(words) |-> capitalize(words[i])], " ")

\* the title-cased working title of every name of the model
title_cases == [n \in Names |-> title_case(working_title(n))]
title_case_of(name) ==
    IF name \in Names THEN title_cases[name] ELSE title_case(working_title(name))

\* a synthesizer that also gives scripts a prefix
generate_new_filename_script_prefix(self) ==
    LET title == title_case_of(self.name)
        prefixed_name ==
            CASE self.doc_kind = "Rubric"  -> "Rubric - " \o title
              [] self.doc_kind = "Report"  -> "Report - " \o title
              [] self.doc_kind = "Guide"   -> "Guide - " \o title
              [] self.doc_kind = "Summary" -> "Summary - " \o title
              [] self.doc_kind = "Script"  -> "Script - " \o title
              [] self.doc_kind = "Unknown" -> title
    IN  CASE self.file_type = "Markdown" -> prefixed_name \o ".md"
          [] self.file_type = "Shell"    -> prefixed_name \o ".sh"
          [] self.file_type = "Other"    ->
                IF file_name_of(self.path) = "" THEN "unknown" ELSE file_name_of(self.path)

generate_new_filename(self) ==
    LET title == title_case_of(self.name)
        prefixed_name ==
            CASE self.doc_kind = "Rubric"  -> "Rubric - " \o title
              [] self.doc_kind = "Report"  -> "Report - " \o title
              [] self.doc_kind = "Guide"   -> "Guide - " \o title
              [] self.doc_kind = "Summary" -> "Summary - " \o title
              [] self.doc_kind = "Script"  -> title
              [] self.doc_kind = "Unknown" -> title
    IN  CASE self.file_type = "Markdown" -> prefixed_name \o ".md"
          [] self.file_type = "Shell"    -> prefixed_name \o ".sh"
          [] self.file_type = "Other"    ->
                IF file_name_of(self.path) = "" THEN "unknown" ELSE file_name_of(self.path)

\* a placement that looks for "test" before "install" and "setup"
script_directory_test_first(content) ==
    LET content_lower == to_lowercase(content)
    IN  IF contains(content_lower, "test") THEN "scripts/tests"
        ELSE IF contains(content_lower, "install") \/ contains(content_lower, "setup")
        THEN "scripts/setup"
        ELSE IF contains(content_lower, "build") THEN "scripts/build"
        ELSE "scripts"

\* `// Determine script subcategory`: the directory of a script by its content
script_directory(content) ==
    LET content_lower == to_lowercase(content)
    IN  IF contains(content_lower, "install") \/ contains(content_lower, "setup")
        THEN "scripts/setup"
        ELSE IF contains(content_lower, "test") THEN "scripts/tests"
        ELSE IF contains(content_lower, "build") THEN "scripts/build"
        ELSE "scripts"

script_directories == [c \in Texts |-> script_directory(c)]
script_directory_of(content) ==
    IF content \in Texts THEN script_directories[content] ELSE script_directory(content)

suggest_target_directory(self, base_dir) ==
    CASE self.file_type = "Markdown" /\ self.doc_kind = "Rubric" ->
            path_join(base_dir, "docs/rubrics")
      [] self.file_type = "Markdown" /\ self.doc_kind = "Report" ->
            path_join(base_dir, "docs/reports")
      [] self.file_type = "Markdown" /\ self.doc_kind = "Guide" ->
            path_join(base_dir, "docs/guides")
      [] self.file_type = "Markdown" /\ self.doc_kind = "Summary" ->
            path_join(base_dir, "docs/summaries")
      [] self.file_type = "Shell" /\ self.doc_kind = "Script" ->
            path_join(base_dir, script_directory_of(self.content))
      [] OTHER -> base_dir

(***************************************************************************)
(* The keep flow (keep_important_files): the candidate list is enumerated, *)
(* KeepAnalysis::new makes both lists empty, evaluate_files fills them.    *)
(***************************************************************************)
Range(q) == {q[i] : i \in 1..Len(q)}

\* every list of at most n distinct elements of S
RECURSIVE DistinctSeqs(_, _)
DistinctSeqs(S, n) ==
    IF n = 0 THEN {<<>>}
    ELSE LET shorter == DistinctSeqs(S, n - 1)
         IN  shorter \cup UNION {{Append(q, p) : p \in S \ Range(q)} :
                                    q \in {r \in shorter : Len(r) = n - 1}}

InitRecordIdle ==
    /\ in_path = ""
    /\ in_content = ""
    /\ doc_kind = "Unknown"
    /\ record = Err
    /\ improved_name = ""
    /\ new_filename = ""
    /\ in_base_dir = ""
    /\ target_dir = ""
    /\ renamed = Err
    /\ second_filename = ""

InitRunIdle ==
    /\ dirs = {}
    /\ result = "Ok"
    /\ spawned = FALSE
    /\ rubric_contents = <<>>

InitCleanIdle ==
    /\ restructure = FALSE
    /\ dry_run = FALSE
    /\ processed_files = 0
    /\ skipped_files = 0
    /\ next_file = 1

InitKeepIdle ==
    /\ file_paths = <<>>
    /\ disk = [p \in Paths |-> NoFile]
    /\ important_files = <<>>
    /\ redundant_files = <<>>

Init ==
    /\ pc = "start"
    /\ file_paths \in DistinctSeqs(Paths, MaxFiles)
    /\ disk = [p \in Paths |-> IF p \in Range(file_paths) THEN InitialFile[p] ELSE NoFile]
    /\ important_files = <<>>
    /\ redundant_files = <<>>
    /\ InitRunIdle
    /\ InitCleanIdle
    /\ InitRecordIdle

\* `if total_files == 0 { ... return Ok(()) }`
NoFiles ==
    /\ pc = "start"
    /\ Len(file_paths) = 0
    /\ pc' = "done"
    /\ UNCHANGED <<keepVars, runVars, cleanVars, recordVars, placeVars>>

\* analysis.evaluate_files(&file_paths, verbose)
Evaluate ==
    /\ pc = "start"
    /\ Len(file_paths) > 0
    /\ LET r == evaluate_files(important_files, redundant_files, disk, file_paths)
       IN  /\ important_files' = r[1]
           /\ redundant_files' = r[2]
    /\ pc' = "evaluated"
    /\ UNCHANGED <<file_paths, disk, runVars, cleanVars, recordVars, placeVars>>

Next == NoFiles \/ Evaluate

Spec == Init /\ [][Next]_vars

(***************************************************************************)
(* Records: one file name and one body, the classifier applied to the two  *)
(* strings, FileInfo::new applied to the file, generate_new_filename       *)
(* applied to the record.                                                  *)
(***************************************************************************)
\* the storage medium that holds the one file
one_file(path, content) == [p \in {path} |-> TextFile(content, None)]

InitRecord ==
    /\ pc = "input"
    /\ in_path \in SampleNames
    /\ in_content \in SampleContents
    /\ doc_kind = "Unknown"
    /\ record = Err
    /\ improved_name = ""
    /\ new_filename = ""
    /\ in_base_dir = ""
    /\ target_dir = ""
    /\ renamed = Err
    /\ second_filename = ""
    /\ InitKeepIdle
    /\ InitRunIdle
    /\ InitCleanIdle

\* determine_document_kind(&name, &content) on the two strings as given
Classify ==
    /\ pc = "input"
    /\ doc_kind' = document_kinds[in_path, in_content]
    /\ pc' = "classified"
    /\ UNCHANGED <<keepVars, runVars, cleanVars, placeVars, in_path, in_content, record, improved_name, new_filename>>

\* FileInfo::new(path)
NewFileInfo ==
    /\ pc = "input"
    /\ record' = FileInfo_new(one_file(in_path, in_content), in_path)
    /\ pc' = "record"
    /\ UNCHANGED <<keepVars, runVars, cleanVars, placeVars, in_path, in_content, doc_kind, improved_name, new_filename>>

\* file_info.generate_new_filename()
GenerateNewFilename ==
    /\ pc = "record"
    /\ record.ok
    /\ improved_name' = working_title(record.info.name)
    /\ new_filename' = generate_new_filename(record.info)
    /\ pc' = "named"
    /\ UNCHANGED <<keepVars, runVars, cleanVars, placeVars, in_path, in_content, doc_kind, record>>

\* the base directories a record is placed under
BaseDirs == {"proj", "."}

\* file_info.suggest_target_directory(base_dir)
SuggestTargetDirectory ==
    /\ pc = "named"
    /\ \E base \in BaseDirs :
          /\ in_base_dir' = base
          /\ target_dir' = suggest_target_directory(record.info, base)
    /\ pc' = "placed"
    /\ UNCHANGED <<keepVars, runVars, cleanVars, recordVars, renamed, second_filename>>

\* process_file on the copy a run without --restructure has made: the file
\* of the same body under the name new_filename, in the directory of the
\* original.  FileInfo::new makes its record, generate_new_filename its name.
ProcessRenamed ==
    /\ pc = "named"
    /\ record.info.file_type \in {"Markdown", "Shell"}
    /\ LET copy == path_join(parent(in_path), new_filename)
           info == FileInfo_new(one_file(copy, in_content), copy)
       IN  /\ renamed' = info
           /\ second_filename' = generate_new_filename(info.info)
    /\ pc' = "renamed"
    /\ UNCHANGED <<keepVars, runVars, cleanVars, recordVars, in_base_dir, target_dir>>

NextRecord ==
    \/ Classify
    \/ NewFileInfo
    \/ GenerateNewFilename
    \/ SuggestTargetDirectory
    \/ ProcessRenamed

SpecRecord == InitRecord /\ [][NextRecord]_vars

(***************************************************************************)
(* The clean flow (clean_directory): the candidate list is enumerated and  *)
(* process_file is called on each candidate in turn.  The enumerators      *)
(* (WalkDir, read_dir) hand over regular files with the extension md or    *)
(* sh only, never symbolic links.                                          *)
(***************************************************************************)
\* the directory the run is started on
dir_path == "proj"

\* the creation time of a file the run creates
Now == 3

\* Path::is_file and Path::exists on the storage medium fs with the
\* directories ds
is_file(fs, path) == path \in DOMAIN fs /\ fs[path].exists
exists(fs, ds, path) == path \in ds \/ is_file(fs, path)

is_hidden(path) == starts_with(file_name_of(path), ".")

\* the directory and the directories above it
RECURSIVE ancestors(_)
ancestors(dir) == IF dir = "" THEN {} ELSE {dir} \cup ancestors(parent(dir))

\* fs::create_dir_all
create_dir_all(ds, dir) == ds \cup ancestors(dir)

\* fs::copy, File::create + write_all: the file at path holds the text
write_file(fs, path, text) ==
    [p \in DOMAIN fs \cup {path} |-> IF p = path THEN TextFile(text, Some(Now)) ELSE fs[p]]

\* what a call returns: its Result and the storage medium it leaves
Outcome(res, fs, ds) == [result |-> res, disk |-> fs, dirs |-> ds]

\* the operations of the storage medium that can fail in process_file
CleanFaults == {"none", "create_dir_all", "copy"}

\* a copy that takes the file away from where it was
fs_copy_moving(fs, from, to) ==
    [p \in (DOMAIN fs \ {from}) \cup {to} |-> IF p = to THEN fs[from] ELSE fs[p]]

\* fs::copy: the target holds the text of the source, the source stays
fs_copy(fs, from, to) == write_file(fs, to, fs[from].text)

\* a block that copies without looking whether the target exists
perform_operation_overwrite(fs, ds, file_path, target_directory, target_path, fault) ==
    IF ~exists(fs, ds, target_directory) /\ fault = "create_dir_all"
    THEN Outcome("Err", fs, ds)
    ELSE LET ds1 == IF exists(fs, ds, target_directory) THEN ds
                    ELSE create_dir_all(ds, target_directory)
         IN  IF exists(fs, ds1, target_path) /\ target_path = file_path
             THEN Outcome("Ok", fs, ds1)
             ELSE IF fault = "copy"
             THEN Outcome("Err", fs, ds1)
             ELSE Outcome("Ok", fs_copy(fs, file_path, target_path), ds1)

\* the block `if !dry_run { ... }` of process_file: the target directory is
\* created, the file is skipped when source and target are the same file or
\* the target exists, and copied otherwise.  The paths of the model are
\* canonical, so two paths are the same file when they are equal.
perform_operation(fs, ds, file_path, target_directory, target_path, fault) ==
    IF ~exists(fs, ds, target_directory) /\ fault = "create_dir_all"
    THEN Outcome("Err", fs, ds)
    ELSE LET ds1 == IF exists(fs, ds, target_directory) THEN ds
                    ELSE create_dir_all(ds, target_directory)
         IN  IF exists(fs, ds1, target_path) /\ target_path = file_path
             THEN Outcome("Ok", fs, ds1)
             ELSE IF exists(fs, ds1, target_path)
             THEN Outcome("Ok", fs, ds1)
             ELSE IF fault = "copy"
             THEN Outcome("Err", fs, ds1)
             ELSE Outcome("Ok", fs_copy(fs, file_path, target_path), ds1)

\* target_dir.join(&new_filename) of process_file
target_path_of(info, file_path, base_dir, restr) ==
    path_join(IF restr THEN suggest_target_directory(info, base_dir)
              ELSE parent_of(file_path),
              generate_new_filename(info))

\* a process_file that performs the operation in a dry run too
process_file_ignoring_dry_run(fs, ds, file_path, base_dir, restr, dry, fault) ==
    LET file_info == FileInfo_new(fs, file_path)
        target_directory == IF restr THEN suggest_target_directory(file_info.info, base_dir)
                            ELSE parent_of(file_path)
    IN  IF ~is_file(fs, file_path) \/ is_hidden(file_path)
        THEN Outcome("Ok", fs, ds)
        ELSE IF extension_of(file_path) \notin {Some("md"), Some("sh")}
        THEN Outcome("Ok", fs, ds)
        ELSE IF ~file_info.ok
        THEN Outcome("Ok", fs, ds)
        ELSE perform_operation(fs, ds, file_path, target_directory,
                               target_path_of(file_info.info, file_path, base_dir, restr),
                               fault)

\* process_file: what it returns and leaves
process_file(fs, ds, file_path, base_dir, restr, dry, fault) ==
    LET file_info == FileInfo_new(fs, file_path)
        target_directory == IF restr THEN suggest_target_directory(file_info.info, base_dir)
                            ELSE parent_of(file_path)
    IN  IF ~is_file(fs, file_path) \/ is_hidden(file_path)
        THEN Outcome("Ok", fs, ds)
        ELSE IF extension_of(file_path) \notin {Some("md"), Some("sh")}
        THEN Outcome("Ok", fs, ds)
        ELSE IF ~file_info.ok
        THEN Outcome("Ok", fs, ds)
        ELSE IF dry
        THEN Outcome("Ok", fs, ds)
        ELSE perform_operation(fs, ds, file_path, target_directory,
                               target_path_of(file_info.info, file_path, base_dir, restr),
                               fault)

\* the directories above the files
dirs_of(paths) == UNION {ancestors(parent_of(p)) : p \in paths}

\* A recursive run lists every md and sh file below dir_path; a run that is
\* not recursive lists those in dir_path and may find other files in the
\* directories below.
InitClean ==
    /\ pc = "clean"
    /\ file_paths \in DistinctSeqs(CleanPaths, MaxFiles)
    /\ \E present \in SUBSET OtherPaths :
          /\ present # {} => \A p \in Range(file_paths) : parent_of(p) = dir_path
          /\ disk = [p \in Range(file_paths) \cup present |-> InitialCleanFile[p]]
          /\ dirs = {dir_path} \cup dirs_of(Range(file_paths) \cup present)
    /\ restructure \in BOOLEAN
    /\ dry_run \in BOOLEAN
    /\ processed_files = 0
    /\ skipped_files = 0
    /\ next_file = 1
    /\ important_files = <<>>
    /\ redundant_files = <<>>
    /\ result = "Ok"
    /\ spawned = FALSE
    /\ rubric_contents = <<>>
    /\ InitRecordIdle

\* one turn of `for file_path in file_paths`: process_file, one of the two
\* counters incremented by its Result
ProcessFile ==
    /\ pc = "clean"
    /\ next_file <= Len(file_paths)
    /\ \E fault \in CleanFaults :
          LET r == process_file(disk, dirs, file_paths[next_file], dir_path,
                                restructure, dry_run, fault)
          IN  /\ disk' = r.disk
              /\ dirs' = r.dirs
              /\ processed_files' = processed_files + (IF r.result = "Ok" THEN 1 ELSE 0)
              /\ skipped_files' = skipped_files + (IF r.result = "Err" THEN 1 ELSE 0)
    /\ next_file' = next_file + 1
    /\ UNCHANGED <<pc, file_paths, important_files, redundant_files, result, spawned,
                   rubric_contents,
                   restructure, dry_run, recordVars, placeVars>>

\* the loop is over: the summary is printed and clean_directory returns Ok
CleanDone ==
    /\ pc = "clean"
    /\ next_file > Len(file_paths)
    /\ pc' = "done"
    /\ UNCHANGED <<keepVars, runVars, cleanVars, recordVars, placeVars>>

NextClean == ProcessFile \/ CleanDone

SpecClean == InitClean /\ [][NextClean]_vars

(***************************************************************************)
(* KeepAnalysis::move_to_trash.                                            *)
(***************************************************************************)
\* KeepAnalysis.trash_dir: /tmp/maid-trash-bin- and the time of
\* KeepAnalysis::new
trash_dir == "/tmp/maid-trash-bin-20240101_000000"

\* usize::to_string
RECURSIVE to_string(_)
to_string(n) ==
    IF n < 10 THEN CharAt("0123456789", n + 1)
    ELSE to_string(n \div 10) \o CharAt("0123456789", (n % 10) + 1)

\* the `while actual_target_path.exists()` loop: the first of target_path,
\* stem-1.ext, stem-2.ext, ... that does not exist
RECURSIVE actual_target_path(_, _, _, _, _)
actual_target_path(fs, ds, target_path, candidate, counter) ==
    IF ~exists(fs, ds, candidate) THEN candidate
    ELSE LET ext == extension(target_path)
             new_name == file_stem(target_path) \o "-" \o to_string(counter) \o "."
                            \o (IF ext = None THEN "" ELSE ext[1])
         IN  actual_target_path(fs, ds, target_path,
                                path_join(trash_dir, new_name), counter + 1)

\* fs::rename: the file leaves its path and is found at the new one
rename(fs, from, to) ==
    [p \in (DOMAIN fs \ {from}) \cup {to} |-> IF p = to THEN fs[from] ELSE fs[p]]

\* the operation of the storage medium that fails in a call, if any
NoFault == [op |-> "none", at |-> 0]
Fault(op) == [op |-> op, at |-> 0]
FaultAt(op, i) == [op |-> op, at |-> i]

\* `for file_path in &self.redundant_files`, from the i-th file on: the `?`
\* of fs::rename ends the loop and the call with the error
RECURSIVE move_files(_, _, _, _, _)
move_files(fs, ds, redundant, i, fault) ==
    IF i > Len(redundant) THEN Outcome("Ok", fs, ds)
    ELSE IF fault = FaultAt("rename", i) \/ ~is_file(fs, redundant[i])
    THEN Outcome("Err", fs, ds)
    ELSE LET file_path == redundant[i]
             target_path == path_join(trash_dir, file_name_of(file_path))
             actual == actual_target_path(fs, ds, target_path, target_path, 1)
         IN  move_files(rename(fs, file_path, actual), ds, redundant, i + 1, fault)

script_path == path_join(trash_dir, "self_destruct.sh")

script_content ==
    "#!/bin/bash\n"
    \o "# This script will delete the maid trash bin when the terminal session ends\n"
    \o "trap \"rm -rf " \o trash_dir \o "\" EXIT\n"
    \o "# Keep the terminal session open until explicit termination\n"
    \o "cat <(echo \"Maid trash bin will be deleted when this terminal is closed.\")\n"
    \o "# Execute the trap even if the script is killed\n"
    \o "exec bash"

\* the operations that can fail in move_to_trash
MoveFaults(redundant) ==
    {NoFault, Fault("create_dir_all"), Fault("create"), Fault("spawn")}
        \cup {FaultAt("rename", i) : i \in 1..Len(redundant)}

\* what move_to_trash returns and leaves: Outcome and whether the
\* self-destruct script has been launched
Moved(out, launched) ==
    [result |-> out.result, disk |-> out.disk, dirs |-> out.dirs, spawned |-> launched]

\* a move_to_trash that makes the trash directory whatever the list holds
move_to_trash_eager(fs, ds, redundant, fault) ==
    IF fault = Fault("create_dir_all") THEN Moved(Outcome("Err", fs, ds), FALSE)
    ELSE LET ds1 == create_dir_all(ds, trash_dir)
             moved == move_files(fs, ds1, redundant, 1, fault)
         IN  IF moved.result = "Err" THEN Moved(moved, FALSE)
             ELSE IF fault = Fault("create") THEN Moved(Outcome("Err", moved.disk, ds1), FALSE)
             ELSE LET fs1 == write_file(moved.disk, script_path, script_content)
                  IN  IF fault = Fault("spawn") THEN Moved(Outcome("Err", fs1, ds1), FALSE)
                      ELSE Moved(Outcome("Ok", fs1, ds1), TRUE)

move_to_trash(fs, ds, redundant, fault) ==
    IF Len(redundant) = 0 THEN Moved(Outcome("Ok", fs, ds), FALSE)
    ELSE IF fault = Fault("create_dir_all") THEN Moved(Outcome("Err", fs, ds), FALSE)
    ELSE LET ds1 == create_dir_all(ds, trash_dir)
             moved == move_files(fs, ds1, redundant, 1, fault)
         IN  IF moved.result = "Err" THEN Moved(moved, FALSE)
             ELSE IF fault = Fault("create") THEN Moved(Outcome("Err", moved.disk, ds1), FALSE)
             ELSE LET fs1 == write_file(moved.disk, script_path, script_content)
                  IN  IF fault = Fault("spawn") THEN Moved(Outcome("Err", fs1, ds1), FALSE)
                      ELSE Moved(Outcome("Ok", fs1, ds1), TRUE)

(***************************************************************************)
(* KeepAnalysis::generate_comprehensive_rubric.  rubric_content is the     *)
(* sequence of the strings that push_str appends, the file that is written *)
(* their concatenation.                                                    *)
(***************************************************************************)
Digits == "0123456789"

\* char::is_alphanumeric, restricted to the characters of the model
is_alphanumeric(c) ==
    \/ \E i \in 1..Len(UpperAlpha) : CharAt(UpperAlpha, i) = c
    \/ \E i \in 1..Len(LowerAlpha) : CharAt(LowerAlpha, i) = c
    \/ \E i \in 1..Len(Digits) : CharAt(Digits, i) = c

\* the closure of split: |c| !c.is_alphanumeric() && c != '_'
is_boundary(c) == ~is_alphanumeric(c) /\ c # "_"

\* str::split by the closure: the pieces between two boundaries, empty ones
\* included; word is the piece that is being read
RECURSIVE split(_, _)
split(s, word) ==
    IF s = "" THEN <<word>>
    ELSE IF is_boundary(CharAt(s, 1)) THEN <<word>> \o split(Suffix(s, 2), "")
    ELSE split(Suffix(s, 2), word \o CharAt(s, 1))

\* content_words: .filter(|s| !s.is_empty() && s.len() > 3)
content_words(content) ==
    SelectSeq(split(content, ""), LAMBDA w : w # "" /\ Len(w) > 3)

\* word.to_lowercase() for each of the content_words
lowercase_words(content) ==
    LET words == content_words(content)
    IN  [i \in 1..Len(words) |-> to_lowercase(words[i])]

\* the lower-cased content_words of every text of the model, and of a text
\* that a run has written
lowercase_words_table == [c \in Texts |-> lowercase_words(c)]
lowercase_words_of(content) ==
    IF content \in Texts THEN lowercase_words_table[content] ELSE lowercase_words(content)

\* the HashMap keywords as the list of its entries <<word, count>>, in the
\* order in which the words were first inserted
RECURSIVE count_words_into(_, _)
count_words_into(keywords, words) ==
    IF words = <<>> THEN keywords
    ELSE LET word == Head(words)
             known == \E i \in 1..Len(keywords) : keywords[i][1] = word
             counted == IF known
                        THEN [i \in 1..Len(keywords) |->
                                IF keywords[i][1] = word
                                THEN <<word, keywords[i][2] + 1>>
                                ELSE keywords[i]]
                        ELSE Append(keywords, <<word, 1>>)
         IN  count_words_into(counted, Tail(words))

\* the first loop over important_files, from the i-th file on
RECURSIVE extract_keywords(_, _, _, _)
extract_keywords(keywords, fs, important, i) ==
    IF i > Len(important) THEN keywords
    ELSE LET info == FileInfo_new(fs, important[i])
         IN  extract_keywords(
                IF info.ok THEN count_words_into(keywords, lowercase_words_of(info.info.content))
                ELSE keywords,
                fs, important, i + 1)

\* keywords.into_iter(): the entries in the order of the hash table, which
\* RandomState changes from one HashMap to the next.  The orders of the model
\* are the rotations of the insertion order by hash_seed places.
into_iter(keywords, hash_seed) ==
    [i \in 1..Len(keywords) |-> keywords[((i - 1 + hash_seed) % Len(keywords)) + 1]]

\* a selection that takes the entries as the table hands them over
top_keywords_unsorted(keyword_counts) ==
    LET n == IF Len(keyword_counts) < 15 THEN Len(keyword_counts) ELSE 15
    IN  [i \in 1..n |-> keyword_counts[i][1]]

\* keyword_counts.sort_by(|a, b| b.1.cmp(&a.1)), then .iter().take(15)
top_keywords(keyword_counts) ==
    LET sorted == sort_by(keyword_counts,
                          [i, j \in 1..Len(keyword_counts) |->
                              cmp(keyword_counts[j][2], keyword_counts[i][2])])
        n == IF Len(sorted) < 15 THEN Len(sorted) ELSE 15
    IN  [i \in 1..n |-> sorted[i][1]]

\* chrono::Local::now().format("%Y-%m-%d")
current_date == "2024-01-01"

rubric_heading == <<
    "# Comprehensive Project Rubric\n\n",
    "*Generated by Maid - AI-generated file organizer*\n\n",
    "## Overview\n\n",
    "This rubric is automatically generated based on the analysis of project documentation and scripts.\n\n",
    "Generated on: " \o current_date \o "\n\n",
    "## Key Project Components\n\n",
    "### Key Terms\n\n" >>

documentation_quality == <<
    "### Documentation Quality\n\n",
    "| Criterion | Poor | Satisfactory | Excellent |\n",
    "|-----------|------|--------------|----------|\n",
    "| Completeness | Documentation missing key components | Most features documented | Comprehensive documentation of all features |\n",
    "| Clarity | Confusing or unclear | Generally clear with some issues | Clear, concise, and well-organized |\n",
    "| Examples | Few or no examples | Some examples provided | Rich examples covering typical use cases |\n",
    "\n" >>

script_quality == <<
    "### Script Quality\n\n",
    "| Criterion | Poor | Satisfactory | Excellent |\n",
    "|-----------|------|--------------|----------|\n",
    "| Functionality | Scripts fail to accomplish tasks | Scripts work but have limitations | Scripts work flawlessly for all use cases |\n",
    "| Readability | Poorly commented and structured | Adequate comments and structure | Well-commented, clear structure |\n",
    "| Error Handling | Little or no error handling | Basic error handling | Comprehensive error handling with helpful messages |\n",
    "\n" >>

rubric_notes == <<
    "## Note on Documentation Management\n\n",
    "Research has shown that having too many redundant documentation files can lead to confusion and AI hallucinations when used as reference material. This rubric is generated as part of an effort to consolidate and organize project documentation.\n\n",
    "### References\n\n",
    "- Hallucination in Large Language Models: [https://arxiv.org/abs/2309.01219](https://arxiv.org/abs/2309.01219)\n",
    "- The Impact of Contradictory Data on AI Training: [https://www.nature.com/articles/s41467-023-42879-y](https://www.nature.com/articles/s41467-023-42879-y)\n" >>

\* the second loop over important_files: has_documentation or has_scripts,
\* by the file type it looks for
has_file_type(fs, important, file_type) ==
    \E i \in 1..Len(important) :
        LET info == FileInfo_new(fs, important[i])
        IN  info.ok /\ info.info.file_type = file_type

\* tables that come with every rubric
criteria_tables_always(has_documentation, has_scripts) ==
    documentation_quality \o script_quality

\* `if has_documentation { ... } if has_scripts { ... }`
criteria_tables(has_documentation, has_scripts) ==
    (IF has_documentation THEN documentation_quality ELSE <<>>)
        \o (IF has_scripts THEN script_quality ELSE <<>>)

\* rubric_content as it stands when the file is written
rubric_content_of(fs, important, hash_seed) ==
    LET keywords == extract_keywords(<<>>, fs, important, 1)
        keyword_counts == into_iter(keywords, hash_seed)
        top == top_keywords(keyword_counts)
    IN  rubric_heading
            \o [i \in 1..Len(top) |-> "- " \o top[i] \o "\n"]
            \o <<"\n## Evaluation Criteria\n\n">>
            \o criteria_tables(has_file_type(fs, important, "Markdown"),
                               has_file_type(fs, important, "Shell"))
            \o rubric_notes

\* String: the strings pushed, one after the other
RECURSIVE concat(_)
concat(pieces) == IF pieces = <<>> THEN "" ELSE Head(pieces) \o concat(Tail(pieces))

rubric_path(base_dir) == path_join(base_dir, "COMPREHENSIVE_PROJECT_RUBRIC.md")

\* the operations that can fail in generate_comprehensive_rubric
RubricFaults == {NoFault, Fault("create")}

\* `let mut rubric_file = File::create(&rubric_path)?; write_all(..)?`:
\* Outcome and the rubric_content that was built
create_rubric(fs, ds, path, rubric_content, fault) ==
    IF fault = Fault("create")
    THEN [result |-> "Err", disk |-> fs, dirs |-> ds, content |-> rubric_content]
    ELSE [result |-> "Ok",
          disk |-> write_file(fs, path, concat(rubric_content)),
          dirs |-> ds,
          content |-> rubric_content]

\* what generate_comprehensive_rubric returns and leaves: Outcome and the
\* rubric_content it has built, <<>> when it has built none
generate_comprehensive_rubric(fs, ds, important, base_dir, hash_seed, fault) ==
    IF Len(important) = 0
    THEN [result |-> "Ok", disk |-> fs, dirs |-> ds, content |-> <<>>]
    ELSE create_rubric(fs, ds, rubric_path(base_dir),
                       rubric_content_of(fs, important, hash_seed), fault)

(***************************************************************************)
(* The keep flow after the evaluation: the question to the user,           *)
(* move_to_trash and generate_comprehensive_rubric, each `?` returning the *)
(* error from keep_important_files.                                        *)
(***************************************************************************)
InitKeep ==
    /\ pc = "start"
    /\ file_paths \in DistinctSeqs(KeepPaths, MaxFiles)
    /\ disk = [p \in Range(file_paths) |-> InitialKeepFile[p]]
    /\ dirs = {dir_path} \cup dirs_of(Range(file_paths))
    /\ important_files = <<>>
    /\ redundant_files = <<>>
    /\ result = "Ok"
    /\ spawned = FALSE
    /\ rubric_contents = <<>>
    /\ InitCleanIdle
    /\ InitRecordIdle

\* the answer is not "y" or "yes": `Operation cancelled`
Cancel ==
    /\ pc = "evaluated"
    /\ pc' = "cancelled"
    /\ UNCHANGED <<keepVars, runVars, cleanVars, recordVars, placeVars>>

\* the answer is "y" or "yes": analysis.move_to_trash(verbose)?
MoveToTrash ==
    /\ pc = "evaluated"
    /\ \E fault \in MoveFaults(redundant_files) :
          \E r \in {move_to_trash(disk, dirs, redundant_files, fault)} :
              /\ disk' = r.disk
              /\ dirs' = r.dirs
              /\ spawned' = r.spawned
              /\ result' = r.result
              /\ pc' = IF r.result = "Ok" THEN "moved" ELSE "failed"
    /\ UNCHANGED <<file_paths, important_files, redundant_files, rubric_contents,
                   cleanVars, recordVars, placeVars>>

\* analysis.generate_comprehensive_rubric(dir_path, verbose)?
GenerateComprehensiveRubric ==
    /\ pc = "moved"
    /\ \E hash_seed \in 0..MaxSeed, fault \in RubricFaults :
          \E r \in {generate_comprehensive_rubric(disk, dirs, important_files, dir_path,
                                                  hash_seed, fault)} :
              /\ disk' = r.disk
              /\ dirs' = r.dirs
              /\ result' = r.result
              /\ rubric_contents' = IF r.content = <<>> THEN rubric_contents
                                    ELSE Append(rubric_contents, r.content)
              /\ pc' = IF r.result = "Ok" THEN "done" ELSE "failed"
    /\ UNCHANGED <<file_paths, important_files, redundant_files, spawned,
                   cleanVars, recordVars, placeVars>>

NextKeep ==
    \/ NoFiles
    \/ Evaluate
    \/ Cancel
    \/ MoveToTrash
    \/ GenerateComprehensiveRubric

SpecKeep == InitKeep /\ [][NextKeep]_vars

(***************************************************************************)
(* The rubric synthesizer by itself: generate_comprehensive_rubric called  *)
(* on the lists and the files that evaluate_files and move_to_trash leave, *)
(* and called again on the same lists and files.                           *)
(***************************************************************************)
InitRubric ==
    /\ pc = "moved"
    /\ file_paths \in DistinctSeqs(KeepPaths, MaxFiles)
    /\ Len(file_paths) > 0
    /\ \E found \in {[p \in Range(file_paths) |-> InitialKeepFile[p]]} :
       \E lists \in {evaluate_files(<<>>, <<>>, found, file_paths)} :
       \E moved \in {move_to_trash(found, {dir_path} \cup dirs_of(Range(file_paths)),
                                   lists[2], NoFault)} :
           /\ important_files = lists[1]
           /\ redundant_files = lists[2]
           /\ disk = moved.disk
           /\ dirs = moved.dirs
           /\ spawned = moved.spawned
    /\ result = "Ok"
    /\ rubric_contents = <<>>
    /\ InitCleanIdle
    /\ InitRecordIdle

\* the synthesizer is called once more on the same kept files: the file it
\* has written is none of them
GenerateAgain ==
    /\ pc = "done"
    /\ Len(rubric_contents) < MaxRubrics
    /\ rubric_path(dir_path) \notin Range(important_files)
    /\ pc' = "moved"
    /\ UNCHANGED <<keepVars, runVars, cleanVars, recordVars, placeVars>>

NextRubric == GenerateComprehensiveRubric \/ GenerateAgain

SpecRubric == InitRubric /\ [][NextRubric]_vars

(***************************************************************************)
(* Properties of the keep/discard evaluation (specification Spec).         *)
(***************************************************************************)
Keep == Range(important_files)
Discard == Range(redundant_files)
Evaluated == pc = "evaluated"

\* the candidates by position: what FileInfo::new makes of each
Candidates == 1..Len(file_paths)
Loaded == load_all(disk, file_paths)
Readable(i) == Loaded[i][2].ok
Info(i) == Loaded[i][2].info

\* the positions of the records of one document kind
Group(kind) == {i \in Candidates : Readable(i) /\ Info(i).doc_kind = kind}

\* the number of maximal runs of non-whitespace characters of a text
count_words(c) ==
    Cardinality({i \in 1..Len(c) :
        /\ ~is_whitespace(CharAt(c, i))
        /\ (i = 1 \/ is_whitespace(CharAt(c, i - 1)))})
Words == [c \in Texts |-> count_words(c)]

\* record j is not newer than record i, a record without a creation date
\* being older than every record that has one
NotNewer(j, i) ==
    \/ Info(j).created_date = None
    \/ /\ Info(i).created_date # None
       /\ Info(j).created_date[1] <= Info(i).created_date[1]

\* exactly the record at position i of the group g is kept
OnlyKept(g, i) ==
    /\ file_paths[i] \in Keep
    /\ file_paths[i] \notin Discard
    /\ \A j \in g \ {i} : file_paths[j] \in Discard /\ file_paths[j] \notin Keep

\* C1: after evaluate_files every candidate path is in exactly one of
\* important_files and redundant_files: the two lists are disjoint, hold no
\* path twice, and together hold exactly the candidate paths.
PartitionCoversInput ==
    Evaluated =>
        /\ Keep \cap Discard = {}
        /\ Keep \cup Discard = Range(file_paths)
        /\ Len(important_files) + Len(redundant_files) = Len(file_paths)

\* C1 witness: a full candidate list with an unreadable file, a kept and a
\* discarded record has been evaluated.
PartitionWitness ==
    /\ Evaluated
    /\ Len(file_paths) = MaxFiles
    /\ \E i \in Candidates : ~Readable(i)
    /\ redundant_files # <<>>
    /\ Len(important_files) >= 2

\* C4: a kind with exactly one record has that record kept and not
\* discarded, and every kind that has records has one of them kept.
SingletonGroupKept ==
    Evaluated =>
        \A kind \in DocumentKind :
            /\ Group(kind) # {} => \E i \in Group(kind) : file_paths[i] \in Keep
            /\ Cardinality(Group(kind)) = 1 =>
                   \A i \in Group(kind) :
                       file_paths[i] \in Keep /\ file_paths[i] \notin Discard

\* C4 witness: three records of three different kinds that can discard
\* (Rubric, Report, Script), each alone in its kind, are all kept.
SingletonWitness ==
    /\ Evaluated
    /\ Cardinality(Group("Rubric")) = 1
    /\ Cardinality(Group("Report")) = 1
    /\ Cardinality(Group("Script")) = 1
    /\ Len(important_files) = 3
    /\ redundant_files = <<>>

\* C5: of the Rubric records exactly one is kept; no Rubric record has more
\* words than it, and it is the first candidate among those with as many.
RubricLongestKept ==
    Evaluated /\ Group("Rubric") # {} =>
        \E i \in Group("Rubric") :
            /\ OnlyKept(Group("Rubric"), i)
            /\ \A j \in Group("Rubric") :
                   /\ Words[Info(j).content] <= Words[Info(i).content]
                   /\ Words[Info(j).content] = Words[Info(i).content] => i <= j

\* C5 witness: a shorter rubric comes first, two rubrics tie for the most
\* words, the earlier of the two is kept and the other two are discarded.
RubricWitness ==
    /\ Evaluated
    /\ \E k, i, j \in Group("Rubric") :
           /\ k < i /\ i < j
           /\ Words[Info(k).content] < Words[Info(i).content]
           /\ Words[Info(i).content] = Words[Info(j).content]
           /\ file_paths[i] \in Keep
           /\ file_paths[k] \in Discard /\ file_paths[j] \in Discard

\* C6: of the Report records, and of the Summary records, exactly one is
\* kept, and no record of the group is newer than it (no creation date
\* counts as older than any creation date).
NewestKept ==
    Evaluated =>
        \A kind \in {"Report", "Summary"} :
            Group(kind) # {} =>
                \E i \in Group(kind) :
                    /\ OnlyKept(Group(kind), i)
                    /\ \A j \in Group(kind) : NotNewer(j, i)

\* C6 witness: a summary without creation date comes before one that has a
\* date; the dated one is kept, the other discarded, and the only report
\* is kept.
NewestWitness ==
    /\ Evaluated
    /\ \E i, j \in Group("Summary") :
           /\ i < j
           /\ Info(i).created_date = None /\ Info(j).created_date # None
           /\ file_paths[j] \in Keep /\ file_paths[i] \in Discard
    /\ \E i \in Group("Report") : file_paths[i] \in Keep

\* C7: a Script record is discarded exactly if an earlier Script candidate
\* has the same content up to leading and trailing whitespace, and is kept
\* exactly if none has.
ScriptDuplicatesDiscarded ==
    Evaluated =>
        \A i \in Group("Script") :
            LET dup == \E j \in Group("Script") :
                           j < i /\ trimmed[Info(j).content] = trimmed[Info(i).content]
            IN  /\ file_paths[i] \in Discard <=> dup
                /\ file_paths[i] \in Keep <=> ~dup

\* C7 witness: three scripts whose contents differ only in surrounding
\* whitespace; the first is kept, the second and the third are discarded.
ScriptWitness ==
    /\ Evaluated
    /\ Cardinality(Group("Script")) = 3
    /\ \A i, j \in Group("Script") :
           /\ trimmed[Info(i).content] = trimmed[Info(j).content]
           /\ i # j => Info(i).content # Info(j).content
    /\ Len(important_files) = 1
    /\ Len(redundant_files) = 2

\* C8: every Guide record, every Unknown record and every file that cannot
\* be read is kept and not discarded.
GuideUnknownUnreadableKept ==
    Evaluated =>
        \A i \in Candidates :
            (~Readable(i) \/ Info(i).doc_kind \in {"Guide", "Unknown"}) =>
                file_paths[i] \in Keep /\ file_paths[i] \notin Discard

\* C8 witness: two guides and an unreadable file are all kept.
GuideWitness ==
    /\ Evaluated
    /\ Cardinality(Group("Guide")) = 2
    /\ \E i \in Candidates : ~Readable(i)
    /\ Keep = Range(file_paths)

(***************************************************************************)
(* Properties of single records (specification SpecRecord).                *)
(***************************************************************************)
\* The rules of the classifier as a table: the kinds in their priority
\* order, and for each keyword kind the keywords looked for in the name and
\* in the content.
Priority == <<"Rubric", "Report", "Guide", "Summary", "Script", "Unknown">>

NameKeywords == [
    Rubric  |-> {"rubric"},
    Report  |-> {"report", "complete", "status", "analysis", "assessment"},
    Guide   |-> {"guide", "how_to", "howto", "manual", "tutorial", "instructions"},
    Summary |-> {"summary", "overview", "recap", "synopsis"} ]

ContentKeywords == [
    Rubric  |-> {"# rubric", "rubric for", "evaluation rubric", "assessment criteria",
                 "scoring guide"},
    Report  |-> {"# report", "# completion", "# status", "# analysis", "task completion",
                 "completion report", "status update"},
    Guide   |-> {"# guide", "# how to", "# tutorial", "# instructions", "step by step",
                 "how to use", "usage instructions"},
    Summary |-> {"# summary", "# overview", "# recap", "in conclusion",
                 "executive summary", "project summary"} ]

KeywordKinds == {"Rubric", "Report", "Guide", "Summary"}

\* the rule of a kind matches a lower-cased name and a lower-cased content
RuleMatches(kind, name, content) ==
    IF kind \in KeywordKinds
    THEN \/ \E k \in NameKeywords[kind] : contains(name, k)
         \/ \E k \in ContentKeywords[kind] : contains(content, k)
    ELSE IF kind = "Script" THEN ends_with(name, ".sh")
    ELSE TRUE

\* the first kind of the priority order whose rule matches
FirstMatch(name, content) ==
    LET hits == {i \in 1..Len(Priority) : RuleMatches(Priority[i], name, content)}
    IN  Priority[CHOOSE i \in hits : \A j \in hits : i <= j]

RECURSIVE to_uppercase(_)
to_uppercase(s) ==
    IF s = "" THEN ""
    ELSE char_to_uppercase(CharAt(s, 1)) \o to_uppercase(Suffix(s, 2))

\* C2: a record whose file type is Shell has the document kind Script.
ShellRecordIsScript ==
    pc = "record" /\ record.ok /\ record.info.file_type = "Shell" =>
        record.info.doc_kind = "Script"

\* C3: a record with the shell extension whose name and content match none
\* of the rubric, report, guide and summary rules has the document kind
\* Script.
ShellFallbackIsScript ==
    /\ pc = "record"
    /\ record.ok
    /\ extension(in_path) = Some("sh")
    /\ \A kind \in KeywordKinds :
           ~RuleMatches(kind, to_lowercase(in_path), to_lowercase(in_content))
    => record.info.doc_kind = "Script"

\* C9: determine_document_kind returns the first kind of the priority order
\* whose rule matches the lower-cased name or content, and returns the same
\* kind for the name and the content in upper case and in lower case.
ClassifiedByPriority ==
    pc = "classified" =>
        /\ doc_kind = FirstMatch(to_lowercase(in_path), to_lowercase(in_content))
        /\ doc_kind = determine_document_kind(to_uppercase(in_path), to_uppercase(in_content))
        /\ doc_kind = determine_document_kind(to_lowercase(in_path), to_lowercase(in_content))

\* C9 witness: a name in mixed case that says rubric and ends in the shell
\* extension has been classified Rubric.
ClassifiedWitness ==
    /\ pc = "classified"
    /\ in_path = "RUBRIC_Check.sh"
    /\ RuleMatches("Script", to_lowercase(in_path), to_lowercase(in_content))
    /\ doc_kind = "Rubric"

\* The action-word patterns in their fixed order: the keywords of each (the
\* longer one first where one starts with the other) and its action word.
TitlePatterns == <<
    [keys |-> <<"install", "setup">>,           word |-> "Install"],
    [keys |-> <<"test">>,                       word |-> "Test"],
    [keys |-> <<"launch">>,                     word |-> "Launch"],
    [keys |-> <<"verify">>,                     word |-> "Verify"],
    [keys |-> <<"cleanup">>,                    word |-> "Cleanup"],
    [keys |-> <<"integration">>,                word |-> "Integration"],
    [keys |-> <<"configuration", "config">>,    word |-> "Configuration"],
    [keys |-> <<"build">>,                      word |-> "Build"],
    [keys |-> <<"deploy">>,                     word |-> "Deploy"] >>

\* a keyword of the pattern occurs at position p of the text
KeywordAt(text, key, p) ==
    p + Len(key) - 1 <= Len(text) /\ SubSeq(text, p, p + Len(key) - 1) = key

OccursAt(text, keys, p) == \E k \in 1..Len(keys) : KeywordAt(text, keys[k], p)

PatternMatches(text, keys) == \E p \in 1..Len(text) : OccursAt(text, keys, p)

\* the text after the first occurrence of a keyword of the pattern, without
\* the whitespace around it
TextAfterKeyword(text, keys) ==
    LET p == CHOOSE q \in 1..Len(text) :
                /\ OccursAt(text, keys, q)
                /\ \A r \in 1..(q - 1) : ~OccursAt(text, keys, r)
        k == CHOOSE j \in 1..Len(keys) :
                /\ KeywordAt(text, keys[j], p)
                /\ \A h \in 1..(j - 1) : ~KeywordAt(text, keys[h], p)
    IN  trim(Suffix(text, p + Len(keys[k])))

\* the title the last matching pattern of the list produces, the normalized
\* name when no pattern matches
LastMatchTitle(name) ==
    LET text == normalize_name(name)
        hits == {i \in 1..Len(TitlePatterns) : PatternMatches(text, TitlePatterns[i].keys)}
    IN  IF hits = {} THEN text
        ELSE LET i == CHOOSE h \in hits : \A j \in hits : j <= h
             IN  TitlePatterns[i].word \o " " \o TextAfterKeyword(text, TitlePatterns[i].keys)

\* C10: the working title of generate_new_filename is the title of the last
\* pattern of the fixed list that matches the normalized name, and the
\* normalized name itself when none matches.
LastPatternWins ==
    pc = "named" => improved_name = LastMatchTitle(record.info.name)

\* C10 witness: a name that matches the build and the deploy pattern, build
\* coming later in the name and deploy later in the list, got the title of
\* the deploy pattern.
LastPatternWitness ==
    /\ pc = "named"
    /\ record.info.name = "howto_deploy_build"
    /\ PatternMatches(normalize_name(record.info.name), <<"build">>)
    /\ improved_name = "Deploy build"

(***************************************************************************)
(* Properties of the synthesized name and of the placement (specification  *)
(* SpecRecord).                                                            *)
(***************************************************************************)
NamePrefix == [Rubric |-> "Rubric - ", Report |-> "Report - ", Guide |-> "Guide - ",
               Summary |-> "Summary - ", Script |-> "", Unknown |-> ""]

\* the text with every word starting with an upper-case letter and one space
\* between two words; at_start tells that no character of a word has been
\* passed since the last space
RECURSIVE TitleCased(_, _)
TitleCased(text, at_start) ==
    IF text = "" THEN ""
    ELSE IF is_whitespace(CharAt(text, 1)) THEN TitleCased(Suffix(text, 2), TRUE)
    ELSE LET rest == TitleCased(Suffix(text, 2), FALSE)
             more == \E i \in 2..Len(text) : ~is_whitespace(CharAt(text, i))
             next_is_space == Len(text) >= 2 /\ is_whitespace(CharAt(text, 2))
             c == IF at_start THEN char_to_uppercase(CharAt(text, 1)) ELSE CharAt(text, 1)
         IN  c \o (IF next_is_space /\ more THEN " " ELSE "") \o rest

Named == pc \in {"named", "placed", "renamed"}

\* C11: the synthesized filename of a Markdown or Shell record is the prefix
\* of its document kind (none for Script and Unknown), the title-cased working
\* title and the original extension; that of a record of another file type is
\* the original filename.  install_deps.sh becomes "Install Deps.sh".
SynthesizedFilename ==
    Named =>
        /\ record.info.file_type \in {"Markdown", "Shell"} =>
                new_filename = NamePrefix[record.info.doc_kind]
                                 \o TitleCased(improved_name, TRUE)
                                 \o "." \o extension(in_path)[1]
        /\ record.info.file_type = "Other" => new_filename = file_name(in_path)
        /\ (in_path = "install_deps.sh" /\ NamePrefix[record.info.doc_kind] = "")
                => new_filename = "Install Deps.sh"

\* C11 witness: install_deps.sh, a Shell record without prefix, has been named
\* "Install Deps.sh".
SynthesizedWitness ==
    /\ Named
    /\ in_path = "install_deps.sh"
    /\ record.info.file_type = "Shell"
    /\ NamePrefix[record.info.doc_kind] = ""
    /\ new_filename = "Install Deps.sh"

DocsFolder == [Rubric |-> "docs/rubrics", Report |-> "docs/reports",
               Guide |-> "docs/guides", Summary |-> "docs/summaries"]

\* the word occurs in the text, in whatever case
Mentions(text, word) ==
    \E p \in 1..Len(text) :
        /\ p + Len(word) - 1 <= Len(text)
        /\ to_lowercase(SubSeq(text, p, p + Len(word) - 1)) = word

ScriptsFolder(content) ==
    IF Mentions(content, "install") \/ Mentions(content, "setup") THEN "scripts/setup"
    ELSE IF Mentions(content, "test") THEN "scripts/tests"
    ELSE IF Mentions(content, "build") THEN "scripts/build"
    ELSE "scripts"

\* the folder of the placement table, "" for the base directory itself
TableFolder(info) ==
    IF info.file_type = "Markdown" /\ info.doc_kind \in DOMAIN DocsFolder
    THEN DocsFolder[info.doc_kind]
    ELSE IF info.file_type = "Shell" /\ info.doc_kind = "Script"
    THEN ScriptsFolder(info.content)
    ELSE ""

\* C12: the target directory is the folder of the placement table under the
\* base directory: docs/rubrics, docs/reports, docs/guides, docs/summaries for
\* Markdown records of these kinds, scripts/setup, scripts/tests, scripts/build
\* or scripts for Shell scripts by the first of install/setup, test, build their
\* content mentions, and the base directory itself for everything else.
PlacedByTable ==
    pc = "placed" =>
        /\ target_dir = IF TableFolder(record.info) = "" THEN in_base_dir
                        ELSE in_base_dir \o "/" \o TableFolder(record.info)
        /\ (record.info.file_type = "Shell" /\ record.info.doc_kind = "Script"
              /\ in_content = "npm test") => target_dir = in_base_dir \o "/scripts/tests"

\* C12 witness: a Shell script whose content mentions both "test" and "setup"
\* has been placed in scripts/setup.
PlacedWitness ==
    /\ pc = "placed"
    /\ record.info.file_type = "Shell"
    /\ record.info.doc_kind = "Script"
    /\ Mentions(in_content, "test")
    /\ Mentions(in_content, "setup")
    /\ target_dir = "proj/scripts/setup"

\* C20: a file that carries a synthesized name, whose record has the file type
\* and the document kind of the original, is given that same name again.
RenameIsFixedPoint ==
    (/\ pc = "renamed"
     /\ renamed.ok
     /\ renamed.info.file_type = record.info.file_type
     /\ renamed.info.doc_kind = record.info.doc_kind)
        => second_filename = new_filename

(***************************************************************************)
(* Properties of the clean flow (specification SpecClean).                 *)
(***************************************************************************)
\* the candidate the loop is at, and whether process_file gets as far as
\* computing its target
Current == file_paths[next_file]
Processing == pc = "clean" /\ next_file <= Len(file_paths)
Targeted(path) ==
    /\ ~is_hidden(path)
    /\ FileInfo_new(disk, path).ok

\* the target path process_file computes for a candidate
TargetOf(path) ==
    target_path_of(FileInfo_new(disk, path).info, path, dir_path, restructure)

\* C14: a turn of the loop on a candidate whose target path exists (be it
\* the candidate itself) leaves every file and directory as it is, counts the
\* file as processed, not as skipped by an error, and goes on to the next
\* candidate.
ExistingTargetSkipped ==
    [][(/\ Processing
        /\ Targeted(Current)
        /\ exists(disk, dirs, TargetOf(Current)))
         => /\ disk' = disk
            /\ dirs' = dirs
            /\ processed_files' = processed_files + 1
            /\ skipped_files' = skipped_files
            /\ next_file' = next_file + 1
            /\ pc' = "clean"]_vars

\* C14 witness: of two candidates with the same target the first has been
\* copied there, the second has been skipped, and both count as processed.
ExistingTargetWitness ==
    /\ pc = "done"
    /\ restructure
    /\ ~dry_run
    /\ file_paths = <<"proj/docs/run.sh.sh", "proj/run.sh.sh">>
    /\ is_file(disk, "proj/scripts/Run.sh.sh")
    /\ disk["proj/scripts/Run.sh.sh"].text = InitialCleanFile["proj/docs/run.sh.sh"].text
    /\ disk["proj/scripts/Run.sh.sh"].text # InitialCleanFile["proj/run.sh.sh"].text
    /\ processed_files = 2

(***************************************************************************)
(* Properties of the keep flow (specification SpecKeep).                   *)
(***************************************************************************)
\* the redundant files that are still found where they were evaluated
Remaining == {i \in 1..Len(redundant_files) : is_file(disk, redundant_files[i])}

\* the move step has been taken, and the rubric step after it
AfterMove == pc \in {"moved", "failed", "done"}

\* C13: once the trash directory is there, a failure holds back one redundant
\* file at most: every other one has been moved, those after it included.
OnlyFailingFileAborted ==
    (AfterMove /\ trash_dir \in dirs) => Cardinality(Remaining) <= 1

\* C15: no trash directory exists before the move step, and after a move
\* step on an empty list of redundant files there is no trash directory, no
\* self-destruct script, and nothing has been launched.
TrashDirOnlyForRedundant ==
    /\ pc \in {"start", "evaluated", "cancelled"} => trash_dir \notin dirs
    /\ (AfterMove /\ redundant_files = <<>>)
         => /\ trash_dir \notin dirs
            /\ ~is_file(disk, script_path)
            /\ ~spawned
            /\ \A p \in DOMAIN disk : parent_of(p) # trash_dir

\* C15 witness: a confirmed run that kept every file has written its rubric
\* and has made no trash directory.
TrashDirWitness ==
    /\ pc = "done"
    /\ redundant_files = <<>>
    /\ Len(important_files) = 2
    /\ is_file(disk, rubric_path(dir_path))
    /\ trash_dir \notin dirs
    /\ ~spawned

(***************************************************************************)
(* Properties of the rubric synthesizer (specifications SpecRubric and     *)
(* SpecKeep).                                                              *)
(***************************************************************************)
\* C16: two rubrics generated from the same kept files, in the same order and
\* with the same contents, are the same text.
SameRubricTwice ==
    Len(rubric_contents) = 2 => rubric_contents[1] = rubric_contents[2]

\* the characters a token is made of, and the places <<i, j>> of a text where
\* a token of more than three characters stands: a longest run of them
WordCharacters ==
    LET all == LowerAlpha \o UpperAlpha \o "0123456789_"
    IN  {CharAt(all, i) : i \in 1..Len(all)}
Occurrences(text) ==
    {o \in (1..Len(text)) \X (1..Len(text)) :
        /\ o[1] + 3 <= o[2]
        /\ \A k \in o[1]..o[2] : CharAt(text, k) \in WordCharacters
        /\ o[1] = 1 \/ CharAt(text, o[1] - 1) \notin WordCharacters
        /\ o[2] = Len(text) \/ CharAt(text, o[2] + 1) \notin WordCharacters}

\* how often each qualifying token stands in the text of a file, lower-cased,
\* for every file that can be read
TokenCounts ==
    [path \in {q \in KeepPaths : FileInfo_new(InitialKeepFile, q).ok} |->
        LET text == InitialKeepFile[path].text
            places == Occurrences(text)
            token(o) == to_lowercase(SubSeq(text, o[1], o[2]))
        IN  [t \in {token(o) : o \in places} |->
                Cardinality({o \in places : token(o) = t})]]

\* the kept records, and how often each qualifying token stands in the kept
\* records taken together
KeptRecords == Range(important_files) \cap DOMAIN TokenCounts
Frequencies(records) ==
    [t \in UNION {DOMAIN TokenCounts[p] : p \in records} |->
        Cardinality(UNION {{p} \X (1..TokenCounts[p][t]) :
                              p \in {q \in records : t \in DOMAIN TokenCounts[q]}})]
Frequency == Frequencies(KeptRecords)
Qualifying == DOMAIN Frequency

\* the entries of a rubric under its heading `### Key Terms`
KeyTerms(rubric) ==
    LET first == CHOOSE i \in 1..Len(rubric) : rubric[i] = "### Key Terms\n\n"
        last == CHOOSE i \in 1..Len(rubric) : rubric[i] = "\n## Evaluation Criteria\n\n"
    IN  SubSeq(rubric, first + 1, last - 1)
Entry(token) == "- " \o token \o "\n"

\* the list holds min(15, number of qualifying tokens) entries, each a
\* qualifying token, none twice, and no token outside it is more frequent
\* than a token in it
TopFifteen(terms, frequency) ==
    LET tokens == DOMAIN frequency
        listed == {t \in tokens : Entry(t) \in Range(terms)}
    IN  /\ Len(terms) = IF Cardinality(tokens) < 15 THEN Cardinality(tokens) ELSE 15
        /\ Cardinality(listed) = Len(terms)
        /\ \A i \in 1..Len(terms) : \E t \in listed : terms[i] = Entry(t)
        /\ \A t \in tokens \ listed : \A u \in listed : frequency[t] <= frequency[u]

\* C17: the key terms of every generated rubric are min(15, number of
\* distinct qualifying tokens of the kept records) qualifying tokens, and no
\* token that is left out is more frequent than one that is listed.
KeyTermsAreMostFrequent ==
    \A k \in 1..Len(rubric_contents) : TopFifteen(KeyTerms(rubric_contents[k]), Frequency)

\* C17 witness: a rubric from kept records with 18 distinct qualifying
\* tokens lists 15 of them, the most frequent one among them.
KeyTermsWitness ==
    /\ pc = "done"
    /\ Len(rubric_contents) > 0
    /\ Cardinality(Qualifying) = 18
    /\ Frequency["omega"] = 3
    /\ Len(KeyTerms(rubric_contents[1])) = 15
    /\ Entry("omega") \in Range(KeyTerms(rubric_contents[1]))

\* a kept record has the given file type
KeptOfType(file_type) ==
    \E p \in KeptRecords : FileInfo_new(InitialKeepFile, p).info.file_type = file_type

\* a rubric holds a criteria table, its heading and its lines one after the
\* other, or does not even hold the heading of it
HasTable(rubric, table) ==
    \E i \in 1..Len(rubric) : SubSeq(rubric, i, i + Len(table) - 1) = table
LacksTable(rubric, table) == Head(table) \notin Range(rubric)

\* C18: a generated rubric holds the documentation quality table if and only
\* if a kept record is a Markdown file, and the script quality table if and
\* only if a kept record is a Shell file; without such a record not even
\* the heading of the table is there.
TablesGatedByFileType ==
    \A k \in 1..Len(rubric_contents) :
        /\ IF KeptOfType("Markdown")
           THEN HasTable(rubric_contents[k], documentation_quality)
           ELSE LacksTable(rubric_contents[k], documentation_quality)
        /\ IF KeptOfType("Shell")
           THEN HasTable(rubric_contents[k], script_quality)
           ELSE LacksTable(rubric_contents[k], script_quality)

\* C18 witness: the rubric of a run that kept one script, holding the script
\* quality table alone.
TablesWitness ==
    /\ pc = "done"
    /\ important_files = <<"proj/install_deps.sh">>
    /\ Len(rubric_contents) = 1
    /\ HasTable(rubric_contents[1], script_quality)
    /\ LacksTable(rubric_contents[1], documentation_quality)

\* C19: after a confirmed run every kept file is found at its path, as it was
\* when it was evaluated.
KeptFilesUntouched ==
    pc = "done" =>
        \A p \in Range(important_files) :
            is_file(disk, p) /\ disk[p] = InitialKeepFile[p]

\* the files of the trash directory
InTrash == {p \in DOMAIN disk : is_file(disk, p) /\ parent_of(p) = trash_dir}

\* C21: after a move_to_trash that returned Ok, the redundant files are found
\* in the trash directory, each under a path of its own and as it was when
\* it was evaluated.
RedundantFilesInTrash ==
    (pc \in {"moved", "done"} /\ result = "Ok") =>
        \E place \in [1..Len(redundant_files) -> InTrash] :
            /\ \A i, j \in 1..Len(redundant_files) : place[i] = place[j] => i = j
            /\ \A i \in 1..Len(redundant_files) :
                  disk[place[i]] = InitialKeepFile[redundant_files[i]]

(***************************************************************************)
(* Frame properties of the clean flow (specification SpecClean).           *)
(***************************************************************************)
\* C22: no step of a clean run takes away or changes a file or a directory
\* that is there: whatever was found before the run is found after it, at
\* its path and with its content.
CleanOnlyAdds ==
    [][/\ \A p \in DOMAIN disk :
            is_file(disk, p) => (is_file(disk', p) /\ disk'[p] = disk[p])
       /\ dirs \subseteq dirs']_vars

\* C22 witness: a run has copied its one candidate to the synthesized name,
\* and the candidate is where and what it was.
CleanOnlyAddsWitness ==
    /\ pc = "done"
    /\ ~dry_run
    /\ ~restructure
    /\ file_paths = <<"proj/install_deps.sh">>
    /\ processed_files = 1
    /\ is_file(disk, "proj/Install Deps.sh")
    /\ is_file(disk, "proj/install_deps.sh")
    /\ disk["proj/install_deps.sh"] = InitialCleanFile["proj/install_deps.sh"]

====
